---- MODULE Spec2Model ----
(***************************************************************************)
(* Model of db_utils.py: the transacoes ledger kept in SQLite (inserir,    *)
(* deletar, totais, listar_transacoes, faturamento_por_descricao), the     *)
(* lazily opened process-wide connection (_conn) and the sentence parser   *)
(* (PADRAO, tentar_extrair_comando).                                       *)
(*                                                                         *)
(* Conventions.  An optional Python/SQL value is a sequence of length at   *)
(* most one: <<>> is None / NULL and <<x>> is the value x.  An ISO date    *)
(* text 'YYYY-MM-DD' is the triple <<y, m, d>>; SQLite compares such texts *)
(* character by character, which on zero-padded fields is the              *)
(* lexicographic order of the triple.  A REAL amount is an integer.        *)
(***************************************************************************)
EXTENDS Integers, Sequences, FiniteSets, TLC

VARIABLES
    rows,        \* the rows of table transacoes (committed)
    seq,         \* sqlite_sequence.seq of the AUTOINCREMENT key
    singleton,   \* _conn_singleton: <<>> or <<connection id>>
    op,          \* the last store call: its name and arguments
    ret,         \* what that call returned or raised
    issued,      \* history: every id a successful INSERT has assigned
    form,        \* the slots the sentence was written with
    txt,         \* the sentence given to tentar_extrair_comando, as tokens
    res,         \* what tentar_extrair_comando did with it
    pc,          \* per thread: position inside _conn()
    tmp,         \* per thread: the connection it has just created
    got,         \* per thread: what its last _conn() call returned
    calls,       \* per thread: number of _conn() calls started
    opened,      \* every connection sqlite3.connect has created
    configured   \* pairs <<connection, statement>>: what lines 46-49 ran on which

storeVars == <<rows, seq, op, ret, issued>>
parserVars == <<form, txt, res>>
threadVars == <<pc, tmp, got, calls, opened, configured>>
vars == <<rows, seq, singleton, op, ret, issued, form, txt, res, pc, tmp, got, calls, opened,
         configured>>

----------------------------------------------------------------------------
(* Bounds *)

\* number of INSERT statements that may succeed in one run
MaxInserts == 3

\* threads of the process and _conn() calls per thread
NThreads == 3
MaxCalls == 2

----------------------------------------------------------------------------
(* Values *)

None == <<>>
Some(x) == <<x>>

Tipos == {"faturamento", "despesa"}
\* what a caller can put in r["tipo"]: the two kinds and two that are neither
TipoInputs == Tipos \cup {"outro", "Faturamento"}
Datas == {<<2023, 12, 31>>, <<2024, 1, 2>>}
Valores == {0, 50}
Descricoes == {None, Some("A"), Some("B")}
Filtros == {None} \cup {Some(d) : d \in Datas}

\* records a caller passes to inserir while the ledger is written and listed
Registros ==
    [data : Datas, tipo : Tipos, valor : Valores, descricao : {None}]
    \cup [data : Datas, tipo : Tipos, valor : {50}, descricao : {Some("A")}]
\* records whose tipo the table's CHECK rejects
RegistrosRecusados ==
    [data : {<<2024, 1, 2>>}, tipo : TipoInputs \ Tipos, valor : {50}, descricao : {None}]
\* records for the totals by kind: the description plays no part there
RegistrosTotais == [data : Datas, tipo : Tipos, valor : Valores, descricao : {Some("A")}]
\* records for the listing: three days, so that a range can cut on both sides
DatasListar == Datas \cup {<<2024, 1, 10>>}
RegistrosListar ==
    [data : DatasListar, tipo : {"despesa"}, valor : {50}, descricao : {None, Some("A")}]
\* records for the revenue by description: every revenue row, one expense row
RegistrosFaturamento ==
    [data : Datas, tipo : {"faturamento"}, valor : {50}, descricao : Descricoes]
    \cup [data : {<<2024, 1, 2>>}, tipo : {"faturamento"}, valor : {20}, descricao : {Some("A")}]
    \cup [data : {<<2024, 1, 2>>}, tipo : {"despesa"}, valor : {50}, descricao : {Some("A")}]
FiltrosListar == {None} \cup {Some(d) : d \in DatasListar}

RECURSIVE SumValor(_)
SumValor(S) ==
    IF S = {} THEN 0
    ELSE LET r == CHOOSE x \in S : TRUE IN r.valor + SumValor(S \ {r})

MaxOf(S) == IF S = {} THEN 0 ELSE CHOOSE x \in S : \A y \in S : y <= x

Ids(R) == {r.id : r \in R}

----------------------------------------------------------------------------
(* SQLite *)

\* text comparison of two ISO dates
DateLE(a, b) ==
    \/ a[1] < b[1]
    \/ a[1] = b[1] /\ a[2] < b[2]
    \/ a[1] = b[1] /\ a[2] = b[2] /\ a[3] <= b[3]

\* date(data): the calendar date of an ISO date text
SqlDate(data) == <<data[1], data[2], data[3]>>

\* the CHECK compared without regard to case
CheckTipoNoCase(tipo) == tipo \in Tipos \cup {"Faturamento"}

\* CHECK (tipo IN ('faturamento','despesa'))
CheckTipo(tipo) == tipo \in Tipos

\* the key of a plain INTEGER PRIMARY KEY: one more than the largest stored
NextIdRowid(R, s) == MaxOf(Ids(R)) + 1

\* the key an INSERT gets from INTEGER PRIMARY KEY AUTOINCREMENT
NextId(R, s) == MaxOf(Ids(R) \cup {s}) + 1

\* the two optional conditions "date(data) >= ?" and "date(data) <= ?"
Conditions(data_inicio, data_fim) ==
    (IF data_inicio # None THEN <<[cmp |-> ">=", param |-> data_inicio[1]]>> ELSE <<>>)
    \o (IF data_fim # None THEN <<[cmp |-> "<=", param |-> data_fim[1]]>> ELSE <<>>)

\* the WHERE clause with an exclusive upper bound
WhereExclusive(r, conds) ==
    \A i \in 1..Len(conds) :
        IF conds[i].cmp = ">="
        THEN DateLE(conds[i].param, SqlDate(r.data))
        ELSE DateLE(SqlDate(r.data), conds[i].param) /\ SqlDate(r.data) # conds[i].param

\* the WHERE clause: the conditions joined by AND
Where(r, conds) ==
    \A i \in 1..Len(conds) :
        IF conds[i].cmp = ">="
        THEN DateLE(conds[i].param, SqlDate(r.data))
        ELSE DateLE(SqlDate(r.data), conds[i].param)

----------------------------------------------------------------------------
(* The connection, as one sequential caller sees it *)

Conn(s) == IF s = None THEN Some(1) ELSE s

----------------------------------------------------------------------------
(* Store operations *)

InserirOk(r) == CheckTipo(r.tipo)

\* the INSERT with the descricao column left out
InsertedRowNoDescricao(r) ==
    [id |-> NextId(rows, seq), data |-> r.data, tipo |-> r.tipo,
     valor |-> r.valor, descricao |-> None]

InsertedRow(r) ==
    [id |-> NextId(rows, seq), data |-> r.data, tipo |-> r.tipo,
     valor |-> r.valor, descricao |-> r.descricao]

inserir(r) ==
    /\ singleton' = Conn(singleton)
    /\ op' = [name |-> "inserir", r |-> r]
    /\ IF InserirOk(r)
       THEN /\ seq < MaxInserts
            /\ rows' = rows \cup {InsertedRow(r)}
            /\ seq' = NextId(rows, seq)
            /\ issued' = issued \cup {NextId(rows, seq)}
            /\ ret' = [tag |-> "None"]
       ELSE /\ ret' = [tag |-> "IntegrityError"]
            /\ UNCHANGED <<rows, seq, issued>>
    /\ UNCHANGED <<parserVars, threadVars>>

\* the DELETE with "id >= ?" for "id = ?"
DeletedFrom(R, reg_id) == {r \in R : r.id >= reg_id}

Deleted(R, reg_id) == {r \in R : r.id = reg_id}

deletar(reg_id) ==
    /\ singleton' = Conn(singleton)
    /\ op' = [name |-> "deletar", reg_id |-> reg_id]
    /\ rows' = rows \ Deleted(rows, reg_id)
    /\ ret' = [tag |-> "bool", val |-> Cardinality(Deleted(rows, reg_id)) > 0]
    /\ UNCHANGED <<seq, issued, parserVars, threadVars>>

----------------------------------------------------------------------------
(* Read operations *)

\* SELECT tipo, SUM(valor) ... GROUP BY tipo, as the list of (tipo, sum) pairs
TotaisGroups(R, conds) ==
    LET sel == {r \in R : Where(r, conds)}
    IN  {<<t, SumValor({r \in sel : r.tipo = t})>> : t \in {r.tipo : r \in sel}}

\* v or 0.0
OrZero(v) == IF v = 0 THEN 0 ELSE v

\* the dict comprehension {t: v or 0.0 for t, v in ...}
TotaisDict(R, data_inicio, data_fim) ==
    LET g == TotaisGroups(R, Conditions(data_inicio, data_fim))
    IN  [t \in {p[1] : p \in g} |-> OrZero((CHOOSE p \in g : p[1] = t)[2])]

totais(data_inicio, data_fim) ==
    /\ singleton' = Conn(singleton)
    /\ op' = [name |-> "totais", data_inicio |-> data_inicio, data_fim |-> data_fim]
    /\ ret' = [tag |-> "dict", val |-> TotaisDict(rows, data_inicio, data_fim)]
    /\ UNCHANGED <<rows, seq, issued, parserVars, threadVars>>

\* COALESCE(descricao, '')
Coalesce(d) == IF d = None THEN "" ELSE d[1]

\* parse_dates=["data"]: the ISO text becomes a timestamp at midnight
ToTimestamp(data) ==
    [year |-> data[1], month |-> data[2], day |-> data[3], hour |-> 0, minute |-> 0]

\* ORDER BY date(data) DESC, id: ties broken by the smaller id
ListarBeforeIdAsc(a, b) ==
    \/ ~DateLE(SqlDate(a.data), SqlDate(b.data))
    \/ SqlDate(a.data) = SqlDate(b.data) /\ a.id < b.id

\* ORDER BY date(data) DESC, id DESC: a comes before b
ListarBefore(a, b) ==
    \/ ~DateLE(SqlDate(a.data), SqlDate(b.data))
    \/ SqlDate(a.data) = SqlDate(b.data) /\ a.id > b.id

RECURSIVE ListarSort(_)
ListarSort(S) ==
    IF S = {} THEN <<>>
    ELSE LET first == CHOOSE a \in S : \A b \in S \ {a} : ListarBefore(a, b)
         IN  <<first>> \o ListarSort(S \ {first})

\* one row of the data frame
ListarRow(r) ==
    [id |-> r.id, data |-> ToTimestamp(r.data), tipo |-> r.tipo, valor |-> r.valor,
     descricao |-> Coalesce(r.descricao)]

ListarFrame(R, data_inicio, data_fim) ==
    LET sorted == ListarSort({r \in R : Where(r, Conditions(data_inicio, data_fim))})
    IN  [i \in 1..Len(sorted) |-> ListarRow(sorted[i])]

listar_transacoes(data_inicio, data_fim) ==
    /\ singleton' = Conn(singleton)
    /\ op' = [name |-> "listar_transacoes", data_inicio |-> data_inicio, data_fim |-> data_fim]
    /\ ret' = [tag |-> "frame", val |-> ListarFrame(rows, data_inicio, data_fim)]
    /\ UNCHANGED <<rows, seq, issued, parserVars, threadVars>>

\* the date conditions alone, the tipo test lost
FaturamentoWhereAnyTipo(r, conds) == Where(r, conds)

\* WHERE tipo='faturamento' [AND date(data) >= ?] [AND date(data) <= ?]
FaturamentoWhere(r, conds) == r.tipo = "faturamento" /\ Where(r, conds)

\* SELECT descricao, SUM(valor) AS total ... GROUP BY descricao (NULL is a group)
FaturamentoGroups(R, conds) ==
    LET sel == {r \in R : FaturamentoWhere(r, conds)}
    IN  {[descricao |-> d, total |-> SumValor({r \in sel : r.descricao = d})] :
            d \in {r.descricao : r \in sel}}

\* ORDER BY total DESC: every order of the groups that SQLite may produce
FaturamentoFrames(R, data_inicio, data_fim) ==
    LET g == FaturamentoGroups(R, Conditions(data_inicio, data_fim))
        n == Cardinality(g)
    IN  {f \in [1..n -> g] :
            /\ \A i, j \in 1..n : i # j => f[i] # f[j]
            /\ \A i, j \in 1..n : i < j => f[i].total >= f[j].total}

faturamento_por_descricao(data_inicio, data_fim) ==
    /\ singleton' = Conn(singleton)
    /\ op' = [name |-> "faturamento_por_descricao",
              data_inicio |-> data_inicio, data_fim |-> data_fim]
    /\ \E f \in FaturamentoFrames(rows, data_inicio, data_fim) :
            ret' = [tag |-> "frame", val |-> f]
    /\ UNCHANGED <<rows, seq, issued, parserVars, threadVars>>

----------------------------------------------------------------------------
(* The sentence parser *)

(* A sentence is the sequence of its tokens: a word [k |-> "w"], a full stop *)
(* [k |-> "."], a run of digits, dots and commas [k |-> "num"] kept          *)
(* character by character, or a date-shaped token [k |-> "date"] with its    *)
(* three numbers and two separators.  Each token records in gap what stands  *)
(* between it and the token before: "sp" for spaces or tabs, "nl" for        *)
(* whitespace with a line break in it, "no" for nothing (a full stop written *)
(* against the word before it).                                              *)
W(w) == [k |-> "w", gap |-> "sp", w |-> w]
Stop == [k |-> ".", gap |-> "sp"]
Num(chars) == [k |-> "num", gap |-> "sp", chars |-> chars]
Date(dia, s1, mes, s2, ano) ==
    [k |-> "date", gap |-> "sp", dia |-> dia, s1 |-> s1, mes |-> mes, s2 |-> s2, ano |-> ano]
\* the token written on a new line, or against the token before it
NewLine(tok) == [tok EXCEPT !.gap = "nl"]
Glued(tok) == [tok EXCEPT !.gap = "no"]

\* flags=re.I and str.lower, on the words the sentences use
Lower(w) ==
    CASE w = "Registre" -> "registre"
      [] w = "R$" -> "r$"
      [] w = "DESPESA" -> "despesa"
      [] w = "Faturamentos" -> "faturamentos"
      [] OTHER -> w

IsWord(t, i, w) == i <= Len(t) /\ t[i].k = "w" /\ Lower(t[i].w) = w

\* \s+ before token i: spaces, tabs or line breaks, at least one
Spaced(t, i) == i <= Len(t) /\ t[i].gap # "no"

NoMatch == [ok |-> FALSE]

\* "registre" made optional: the match may start at any token
MatchRegistreOptional(t, i) == IF IsWord(t, i, "registre") THEN i + 1 ELSE i

\* registre: the position after it, or 0 when the token at i is not that word
MatchRegistre(t, i) == IF IsWord(t, i, "registre") THEN i + 1 ELSE 0

\* (?:\s+no\s+banco\s+de\s+dados)?
MatchBanco(t, i) ==
    IF /\ IsWord(t, i, "no") /\ IsWord(t, i + 1, "banco")
       /\ IsWord(t, i + 2, "de") /\ IsWord(t, i + 3, "dados")
       /\ \A j \in i..(i + 3) : Spaced(t, j)
    THEN i + 4 ELSE i

\* \s+(?:r\$\s*)?
MatchMoeda(t, i) == IF IsWord(t, i, "r$") /\ Spaced(t, i) THEN i + 1 ELSE i

\* (faturamento|despesa)s?
TipoOf(w) ==
    CASE Lower(w) \in {"faturamento", "faturamentos"} -> <<"faturamento">>
      [] Lower(w) \in {"despesa", "despesas"} -> <<"despesa">>
      [] OTHER -> <<>>

AllStops(t) == \A i \in 1..Len(t) : t[i].k = "."

\* (?:\s+com\s+descricao\s+(.+?))?[\s\.]*$ on the tokens after the date.
\* The lazy group takes the shortest non-empty run that leaves only full stops
\* and whitespace; "." matches no line break, so the run lies on one line.
MatchDescricao(rest) ==
    IF AllStops(rest) THEN [ok |-> TRUE, g4 |-> None]
    ELSE IF /\ Len(rest) >= 3
            /\ IsWord(rest, 1, "com") /\ IsWord(rest, 2, "descricao")
            /\ \A j \in 1..3 : Spaced(rest, j)
         THEN LET body == SubSeq(rest, 3, Len(rest))
                  n == CHOOSE n \in 1..Len(body) :
                          /\ AllStops(SubSeq(body, n + 1, Len(body)))
                          /\ \A m \in 1..(n - 1) : ~AllStops(SubSeq(body, m + 1, Len(body)))
              IN  IF \E j \in 2..n : body[j].gap = "nl" THEN NoMatch
                  ELSE [ok |-> TRUE, g4 |-> Some(SubSeq(body, 1, n))]
         ELSE NoMatch

\* PADRAO tried at token i
MatchAt(t, i) ==
    LET p1 == MatchRegistre(t, i)
        p3 == MatchMoeda(t, MatchBanco(t, p1))
    IN  IF p1 = 0 THEN NoMatch
        ELSE IF /\ p3 + 4 <= Len(t)
                /\ t[p3].k = "num"
                /\ Spaced(t, p3) \/ p3 # MatchBanco(t, p1)
                /\ \A j \in (p3 + 1)..(p3 + 4) : Spaced(t, j)
                /\ IsWord(t, p3 + 1, "de")
                /\ t[p3 + 2].k = "w" /\ TipoOf(t[p3 + 2].w) # <<>>
                /\ IsWord(t, p3 + 3, "em")
                /\ t[p3 + 4].k = "date"
             THEN LET d == MatchDescricao(SubSeq(t, p3 + 5, Len(t)))
                  IN  IF d.ok
                      THEN [ok |-> TRUE, g1 |-> t[p3].chars, g2 |-> t[p3 + 2].w,
                            g3 |-> t[p3 + 4], g4 |-> d.g4]
                      ELSE NoMatch
             ELSE NoMatch

\* PADRAO.search: the leftmost position where the pattern matches
Search(t) ==
    LET at == {i \in 1..Len(t) : MatchAt(t, i).ok}
    IN  IF at = {} THEN NoMatch
        ELSE MatchAt(t, CHOOSE i \in at : \A j \in at : i <= j)

DigitVal(c) ==
    CASE c = "0" -> 0 [] c = "1" -> 1 [] c = "2" -> 2 [] c = "3" -> 3 [] c = "4" -> 4
      [] c = "5" -> 5 [] c = "6" -> 6 [] c = "7" -> 7 [] c = "8" -> 8 [] c = "9" -> 9

\* .replace('.', '').replace(',', '.')
RECURSIVE NormalizeValor(_)
NormalizeValor(chars) ==
    IF chars = <<>> THEN <<>>
    ELSE LET c == Head(chars)
         IN  (IF c = "." THEN <<>> ELSE IF c = "," THEN <<".">> ELSE <<c>>)
             \o NormalizeValor(Tail(chars))

RECURSIVE DigitsValue(_)
DigitsValue(ds) ==
    IF ds = <<>> THEN 0 ELSE DigitsValue(SubSeq(ds, 1, Len(ds) - 1)) * 10 + DigitVal(ds[Len(ds)])

\* a number as mant / 10^scale with no trailing zero in the fraction
RECURSIVE Reduce(_, _)
Reduce(mant, scale) ==
    IF scale > 0 /\ mant % 10 = 0 THEN Reduce(mant \div 10, scale - 1)
    ELSE [mant |-> mant, scale |-> scale]

\* float(): <<>> for ValueError, else the number read
ParseFloat(chars) ==
    LET points == {i \in 1..Len(chars) : chars[i] = "."}
        digits == SelectSeq(chars, LAMBDA c : c # ".")
    IN  IF Cardinality(points) > 1 \/ digits = <<>> THEN <<>>
        ELSE LET scale == IF points = {} THEN 0
                          ELSE Len(chars) - (CHOOSE i \in points : TRUE)
             IN  <<Reduce(DigitsValue(digits), scale)>>

IsLeap(y) == (y % 4 = 0 /\ y % 100 # 0) \/ y % 400 = 0

DaysInMonth(y, m) ==
    IF m = 2 THEN (IF IsLeap(y) THEN 29 ELSE 28)
    ELSE IF m \in {4, 6, 9, 11} THEN 30 ELSE 31

\* datetime.strptime(g3.replace('-', '/'), "%d/%m/%Y").date().isoformat():
\* <<>> for ValueError, else the ISO date
ParseDate(g3) ==
    LET text == [g3 EXCEPT !.s1 = "/", !.s2 = "/"]
    IN  IF /\ text.dia \in 1..31 /\ text.mes \in 1..12 /\ text.ano >= 1
           /\ text.dia <= DaysInMonth(text.ano, text.mes)
        THEN <<<<text.ano, text.mes, text.dia>>>>
        ELSE <<>>

Extrair(t) ==
    LET m == Search(t)
    IN  IF ~m.ok THEN [tag |-> "None"]
        ELSE LET valor == ParseFloat(NormalizeValor(m.g1))
                 data_iso == ParseDate(m.g3)
             IN  IF valor = <<>> \/ data_iso = <<>> THEN [tag |-> "ValueError"]
                 ELSE [tag |-> "Registro",
                       val |-> [valor |-> valor[1], tipo |-> TipoOf(m.g2)[1],
                                data |-> data_iso[1], descricao |-> m.g4]]

tentar_extrair_comando ==
    /\ res = [tag |-> "pending"]
    /\ res' = Extrair(txt)
    /\ UNCHANGED <<txt, form, rows, seq, singleton, op, ret, issued, threadVars>>

(* Sentences: each slot of the sentence written or left out *)
Formas ==
    [antes : {<<>>, <<W("por"), W("favor")>>},
     registre : {<<>>, <<W("registre")>>, <<W("Registre")>>},
     banco : {<<>>, <<W("no"), W("banco"), W("de"), W("dados")>>},
     moeda : {<<>>, <<W("R$")>>},
     valor : {<<>>, <<Num(<<"1", "5", "0">>)>>, <<Num(<<"1", ".", "2", "3", "4", ",", "5", "6">>)>>,
              <<Num(<<"1", "0", ",", "5", "0">>)>>, <<Num(<<"1", ",", "2", ",", "3">>)>>},
     de : {<<>>, <<W("de")>>, <<NewLine(W("de"))>>},
     tipo : {<<>>, <<W("faturamento")>>, <<W("DESPESA")>>, <<W("Faturamentos")>>},
     em : {<<>>, <<W("em")>>},
     data : {<<>>, <<Date(12, "/", 5, "/", 2024)>>, <<Date(12, "-", 5, "/", 2024)>>,
             <<Date(31, "/", 2, "/", 2024)>>, <<Date(29, "-", 2, "-", 2024)>>,
             <<Date(29, "/", 2, "/", 2023)>>, <<Date(0, "/", 13, "/", 0)>>},
     descricao : {<<>>, <<W("com"), W("descricao"), W("aluguel"), W("novo")>>,
                  <<NewLine(W("com")), NewLine(W("descricao")), NewLine(W("aluguel")), W("novo")>>,
                  <<W("com"), W("descricao"), W("aluguel"), NewLine(W("novo"))>>,
                  <<W("com"), W("descricao")>>},
     fim : {<<>>, <<Stop>>, <<Glued(Stop)>>, <<NewLine(Stop)>>, <<W("hoje")>>}]

Frase(f) ==
    f.antes \o f.registre \o f.banco \o f.moeda \o f.valor \o f.de \o f.tipo
    \o f.em \o f.data \o f.descricao \o f.fim

InitParser ==
    /\ form \in Formas
    /\ txt = Frase(form)
    /\ res = [tag |-> "pending"]
    /\ rows = {} /\ seq = 0 /\ singleton = None /\ issued = {}
    /\ op = [name |-> "import"] /\ ret = [tag |-> "None"]
    /\ pc = [t \in 1..NThreads |-> "idle"]
    /\ tmp = [t \in 1..NThreads |-> None]
    /\ got = [t \in 1..NThreads |-> None]
    /\ calls = [t \in 1..NThreads |-> 0]
    /\ opened = {}
    /\ configured = {}

NextParser == tentar_extrair_comando

SpecParser == InitParser /\ [][NextParser]_vars

Init ==
    /\ rows = {}
    /\ seq = 0
    /\ singleton = None
    /\ op = [name |-> "import"]
    /\ ret = [tag |-> "None"]
    /\ issued = {}
    /\ form = <<>>
    /\ txt = <<>>
    /\ res = [tag |-> "None"]
    /\ pc = [t \in 1..NThreads |-> "idle"]
    /\ tmp = [t \in 1..NThreads |-> None]
    /\ got = [t \in 1..NThreads |-> None]
    /\ calls = [t \in 1..NThreads |-> 0]
    /\ opened = {}
    /\ configured = {}

\* the ledger written, deleted from and listed in full or by range
Next ==
    \/ \E r \in Registros \cup RegistrosRecusados : inserir(r)
    \/ \E reg_id \in 1..(MaxInserts + 1) : deletar(reg_id)
    \/ listar_transacoes(None, None)

Spec == Init /\ [][Next]_vars

NextTotais ==
    \/ \E r \in RegistrosTotais : inserir(r)
    \/ \E reg_id \in 1..(MaxInserts + 1) : deletar(reg_id)
    \/ \E di, df \in Filtros : totais(di, df)

SpecTotais == Init /\ [][NextTotais]_vars

NextListar ==
    \/ \E r \in RegistrosListar : inserir(r)
    \/ \E reg_id \in 1..(MaxInserts + 1) : deletar(reg_id)
    \/ \E di, df \in FiltrosListar : listar_transacoes(di, df)

SpecListar == Init /\ [][NextListar]_vars

NextFaturamento ==
    \/ \E r \in RegistrosFaturamento : inserir(r)
    \/ \E reg_id \in 1..(MaxInserts + 1) : deletar(reg_id)
    \/ \E di, df \in Filtros : faturamento_por_descricao(di, df)

SpecFaturamento == Init /\ [][NextFaturamento]_vars

----------------------------------------------------------------------------
(* _conn() run by several threads: one step per read or write of the global *)

Threads == 1..NThreads

\* a store operation begins by calling _conn()
ConnCall(t) ==
    /\ pc[t] = "idle"
    /\ calls[t] < MaxCalls
    /\ calls' = [calls EXCEPT ![t] = @ + 1]
    /\ pc' = [pc EXCEPT ![t] = "test"]
    /\ UNCHANGED <<singleton, tmp, got, opened, configured, storeVars, parserVars>>

\* if _conn_singleton is None
ConnTest(t) ==
    /\ pc[t] = "test"
    /\ pc' = [pc EXCEPT ![t] = IF singleton = None THEN "connect" ELSE "return"]
    /\ UNCHANGED <<singleton, tmp, got, calls, opened, configured, storeVars, parserVars>>

\* sqlite3.connect(DB_PATH, ...): a new connection object
ConnConnect(t) ==
    /\ pc[t] = "connect"
    /\ opened' = opened \cup {Cardinality(opened) + 1}
    /\ tmp' = [tmp EXCEPT ![t] = Some(Cardinality(opened) + 1)]
    /\ pc' = [pc EXCEPT ![t] = "assign"]
    /\ UNCHANGED <<singleton, got, calls, configured, storeVars, parserVars>>

\* _conn_singleton = <the new connection>
ConnAssign(t) ==
    /\ pc[t] = "assign"
    /\ singleton' = tmp[t]
    /\ pc' = [pc EXCEPT ![t] = "row_factory"]
    /\ UNCHANGED <<tmp, got, calls, opened, configured, storeVars, parserVars>>

(* Lines 46-49: each statement is applied to the connection the global names *)
(* when that line runs, which another thread may have replaced meanwhile.     *)

\* _conn_singleton.row_factory = sqlite3.Row
ConnRowFactory(t) ==
    /\ pc[t] = "row_factory"
    /\ configured' = configured \cup {<<singleton[1], "row_factory">>}
    /\ pc' = [pc EXCEPT ![t] = "pragma"]
    /\ UNCHANGED <<singleton, tmp, got, calls, opened, storeVars, parserVars>>

\* _conn_singleton.execute("PRAGMA journal_mode=WAL;")
ConnPragma(t) ==
    /\ pc[t] = "pragma"
    /\ configured' = configured \cup {<<singleton[1], "pragma">>}
    /\ pc' = [pc EXCEPT ![t] = "ddl"]
    /\ UNCHANGED <<singleton, tmp, got, calls, opened, storeVars, parserVars>>

\* _conn_singleton.execute(DDL)
ConnDDL(t) ==
    /\ pc[t] = "ddl"
    /\ configured' = configured \cup {<<singleton[1], "ddl">>}
    /\ pc' = [pc EXCEPT ![t] = "index"]
    /\ UNCHANGED <<singleton, tmp, got, calls, opened, storeVars, parserVars>>

\* _conn_singleton.execute(INDEX_SQL)
ConnIndex(t) ==
    /\ pc[t] = "index"
    /\ configured' = configured \cup {<<singleton[1], "index">>}
    /\ pc' = [pc EXCEPT ![t] = "return"]
    /\ UNCHANGED <<singleton, tmp, got, calls, opened, storeVars, parserVars>>

\* return _conn_singleton
ConnReturn(t) ==
    /\ pc[t] = "return"
    /\ got' = [got EXCEPT ![t] = singleton]
    /\ pc' = [pc EXCEPT ![t] = "idle"]
    /\ UNCHANGED <<singleton, tmp, calls, opened, configured, storeVars, parserVars>>

NextThreads ==
    \E t \in Threads :
        \/ ConnCall(t)
        \/ ConnTest(t)
        \/ ConnConnect(t)
        \/ ConnAssign(t)
        \/ ConnRowFactory(t)
        \/ ConnPragma(t)
        \/ ConnDDL(t)
        \/ ConnIndex(t)
        \/ ConnReturn(t)

SpecThreads == Init /\ [][NextThreads]_vars

----------------------------------------------------------------------------
(* Properties of the store *)

\* the calendar date a timestamp falls on
TimestampDate(ts) == <<ts.year, ts.month, ts.day>>

\* days since an arbitrary origin, months and years taken at their longest
DayNumber(d) == d[1] * 372 + d[2] * 31 + d[3]

\* data_inicio <= d <= data_fim, each bound counted only when given
InRange(d, data_inicio, data_fim) ==
    /\ data_inicio # None => DayNumber(data_inicio[1]) <= DayNumber(d)
    /\ data_fim # None => DayNumber(d) <= DayNumber(data_fim[1])

Range(f) == {f[i] : i \in 1..Len(f)}

InsertReturned == op'.name = "inserir" /\ ret'.tag = "None"

\* the rows of the unfiltered listing after the step that were not there before
NewListed == Range(ListarFrame(rows', None, None)) \ Range(ListarFrame(rows, None, None))

\* C1 as stated: after inserir(r) returns, the unfiltered listing has exactly one
\* more row, and the new row has an id and r's date, kind, amount and description,
\* a record without a description included.
C1_RoundTripAsStated ==
    [][InsertReturned =>
        /\ Len(ListarFrame(rows', None, None)) = Len(ListarFrame(rows, None, None)) + 1
        /\ Cardinality(NewListed) = 1
        /\ \A n \in NewListed :
            /\ n.id \in Nat \ {0}
            /\ TimestampDate(n.data) = op'.r.data
            /\ n.tipo = op'.r.tipo
            /\ n.valor = op'.r.valor
            /\ Some(n.descricao) = op'.r.descricao]_vars

\* C1 amended: the same, except that the listed description is r's description
\* when r has one and the empty string when r has none.
C1_RoundTrip ==
    [][InsertReturned =>
        /\ Len(ListarFrame(rows', None, None)) = Len(ListarFrame(rows, None, None)) + 1
        /\ Cardinality(NewListed) = 1
        /\ \A n \in NewListed :
            /\ n.id \in Nat \ {0}
            /\ TimestampDate(n.data) = op'.r.data
            /\ n.tipo = op'.r.tipo
            /\ n.valor = op'.r.valor
            /\ n.descricao = (IF op'.r.descricao = None THEN "" ELSE op'.r.descricao[1])]_vars

\* a record without a description was inserted after an insert and a delete
C1_Witness ==
    /\ op.name = "inserir" /\ ret.tag = "None"
    /\ op.r.descricao = None
    /\ Cardinality(rows) = 2 /\ seq = 3

\* C2: deletar(id) returns true exactly when a row with that id is stored; then
\* exactly that row is removed, it is no longer listed and every other row is
\* unchanged; otherwise it returns false and the stored rows are unchanged.
C2_Deletar ==
    [][op'.name = "deletar" =>
        LET id == op'.reg_id
            hit == {r \in rows : r.id = id}
        IN  /\ ret'.val = (hit # {})
            /\ hit # {} =>
                /\ Cardinality(hit) = 1
                /\ rows' = rows \ hit
                /\ \A n \in Range(ListarFrame(rows', None, None)) : n.id # id
            /\ hit = {} => rows' = rows]_vars

\* a delete removed one row and left another; the id is then gone
C2_Witness ==
    /\ op.name = "deletar" /\ ret.val = TRUE
    /\ rows # {}
    /\ op.reg_id \in issued \ Ids(rows)

\* C3: the id given to a newly inserted row is greater than every id given
\* before, also after the row with the largest id has been deleted.
C3_IdsIncrease ==
    [][InsertReturned =>
        /\ Cardinality(Ids(rows') \ Ids(rows)) = 1
        /\ \A new \in Ids(rows') \ Ids(rows) : \A old \in issued : new > old]_vars

\* an insert that followed the deletion of the row with the largest id
C3_Witness ==
    /\ op.name = "inserir" /\ ret.tag = "None"
    /\ seq >= 2
    /\ (seq - 1) \in issued \ Ids(rows)
    /\ seq \in Ids(rows)

\* C9: every stored row has kind faturamento or despesa; inserir with any other
\* kind raises the constraint error, adds no row and leaves the rows and the
\* listing as they were.
C9_TipoConstraint ==
    /\ [](\A r \in rows : r.tipo \in {"faturamento", "despesa"})
    /\ [][(op'.name = "inserir" /\ op'.r.tipo \notin {"faturamento", "despesa"}) =>
            /\ ret'.tag = "IntegrityError"
            /\ rows' = rows
            /\ ListarFrame(rows', None, None) = ListarFrame(rows, None, None)]_vars

\* an insert with another kind was refused while rows were stored
C9_Witness ==
    /\ op.name = "inserir" /\ ret.tag = "IntegrityError"
    /\ op.r.tipo = "Faturamento"
    /\ rows # {}

\* C4: totais returns a mapping whose keys are exactly the kinds with a stored row
\* in the inclusive range, each mapped to the sum of the amounts of those rows;
\* a kind with no row in the range is absent.
C4_Totais ==
    op.name = "totais" =>
        LET in == {r \in rows : InRange(r.data, op.data_inicio, op.data_fim)}
        IN  /\ DOMAIN ret.val = {t \in Tipos : \E r \in in : r.tipo = t}
            /\ \A t \in DOMAIN ret.val : ret.val[t] = SumValor({r \in in : r.tipo = t})

\* totals over a range that holds despesa rows only, faturamento being stored
\* outside it, on the day of the upper bound
C4_Witness ==
    /\ op.name = "totais"
    /\ op.data_fim # None
    /\ DOMAIN ret.val = {"despesa"}
    /\ \E r \in rows : r.tipo = "faturamento"
    /\ \E r \in rows : r.tipo = "despesa" /\ r.data = op.data_fim[1]

\* C5: listar_transacoes returns exactly the stored rows whose date is in the
\* inclusive range, by date descending and, within a date, by id descending.
C5_Listar ==
    op.name = "listar_transacoes" =>
        LET f == ret.val
            in == {r \in rows : InRange(r.data, op.data_inicio, op.data_fim)}
        IN  /\ Len(f) = Cardinality(in)
            /\ {f[i].id : i \in 1..Len(f)} = Ids(in)
            /\ \A i \in 1..Len(f) : \E r \in in :
                /\ r.id = f[i].id /\ TimestampDate(f[i].data) = r.data
                /\ r.tipo = f[i].tipo /\ r.valor = f[i].valor
            /\ \A i, j \in 1..Len(f) : i < j =>
                \/ DayNumber(TimestampDate(f[i].data)) > DayNumber(TimestampDate(f[j].data))
                \/ /\ TimestampDate(f[i].data) = TimestampDate(f[j].data)
                   /\ f[i].id > f[j].id

\* a listing by range that leaves a stored row out and holds two rows of one day
C5_Witness ==
    /\ op.name = "listar_transacoes"
    /\ op.data_inicio # None /\ op.data_fim # None
    /\ Len(ret.val) = 2
    /\ Cardinality(rows) = 3
    /\ ret.val[1].data = ret.val[2].data

\* C6: faturamento_por_descricao returns one row per distinct description among
\* the stored faturamento rows in the inclusive range, with the sum of their
\* amounts, by total descending; despesa rows add to no total.
C6_Faturamento ==
    op.name = "faturamento_por_descricao" =>
        LET f == ret.val
            in == {r \in rows : /\ r.tipo = "faturamento"
                                /\ InRange(r.data, op.data_inicio, op.data_fim)}
        IN  /\ {f[i].descricao : i \in 1..Len(f)} = {r.descricao : r \in in}
            /\ Len(f) = Cardinality({r.descricao : r \in in})
            /\ \A i \in 1..Len(f) :
                f[i].total = SumValor({r \in in : r.descricao = f[i].descricao})
            /\ \A i, j \in 1..Len(f) : i < j => f[i].total >= f[j].total

\* a total that is the sum of two faturamento rows, with a despesa row stored
C6_Witness ==
    /\ op.name = "faturamento_por_descricao"
    /\ Len(ret.val) = 1
    /\ ret.val[1].total = 70
    /\ \E r \in rows : r.tipo = "despesa"

----------------------------------------------------------------------------
(* Properties of the parser and of the connection *)

Parsed == res.tag # "pending"

IsCalendarDate(d) ==
    /\ d.mes \in 1..12 /\ d.ano \in 1..9999
    /\ d.dia >= 1 /\ d.dia <= DaysInMonth(d.ano, d.mes)

\* the amount slots that float() reads
ValoresLidos ==
    {<<Num(<<"1", "5", "0">>)>>, <<Num(<<"1", ".", "2", "3", "4", ",", "5", "6">>)>>,
     <<Num(<<"1", "0", ",", "5", "0">>)>>}

\* nothing follows the date but a description clause with its text on one line,
\* and full stops
FimAceito ==
    /\ form.fim \in {<<>>, <<Stop>>, <<Glued(Stop)>>, <<NewLine(Stop)>>}
    /\ form.descricao = <<W("com"), W("descricao")>>
        => form.fim \in {<<Stop>>, <<NewLine(Stop)>>}
    /\ \A j \in 4..Len(form.descricao) : form.descricao[j].gap # "nl"

\* the slots other than "registre" that the pattern asks for
OutrosPresentes ==
    /\ form.valor # <<>> /\ form.de # <<>> /\ form.tipo # <<>>
    /\ form.em # <<>> /\ form.data # <<>>

\* C7: a sentence that matches the pattern in every slot but whose date is not a
\* calendar date gives no-match (None) as a normal result.
C7_InvalidDateIsNoMatch ==
    (/\ Parsed /\ form.registre # <<>> /\ OutrosPresentes /\ FimAceito
     /\ form.valor \in ValoresLidos
     /\ ~IsCalendarDate(form.data[1]))
    => res.tag = "None"

\* C8 as stated: a sentence with amount, "de", kind, "em" and a valid date that
\* omits "registre" yields a record, and one that lacks any of those other
\* slots yields no-match.
C8_SlotsAsStated ==
    /\ (/\ Parsed /\ form.registre = <<>> /\ OutrosPresentes /\ FimAceito
        /\ form.valor \in ValoresLidos
        /\ IsCalendarDate(form.data[1]))
       => res.tag = "Registro"
    /\ (Parsed /\ ~OutrosPresentes) => res.tag = "None"

\* C8 amended: "no banco de dados", the currency marker and the description
\* clause are the only optional slots: a sentence that omits "registre" or any of
\* amount, "de", kind, "em" and date yields no-match; a sentence with all six,
\* followed by nothing but a description clause on one line and full stops, is
\* matched whichever optional slots it has, and yields a record with the slots'
\* kind and description when its amount and date are valid.
C8_Slots ==
    /\ (Parsed /\ (form.registre = <<>> \/ ~OutrosPresentes)) => res.tag = "None"
    /\ (Parsed /\ form.registre # <<>> /\ OutrosPresentes /\ FimAceito)
       => /\ res.tag # "None"
          /\ (form.valor \in ValoresLidos /\ IsCalendarDate(form.data[1]))
             => /\ res.tag = "Registro"
                /\ res.val.tipo \in {"faturamento", "despesa"}
                /\ res.val.data = <<form.data[1].ano, form.data[1].mes, form.data[1].dia>>
                /\ (res.val.descricao = None) = (form.descricao = <<>>)

\* a sentence complete but for "registre", with a valid date, was parsed
C8_Witness ==
    /\ Parsed /\ res.tag = "None"
    /\ form.registre = <<>> /\ OutrosPresentes /\ FimAceito
    /\ form.banco = <<>> /\ form.moeda = <<>> /\ form.descricao = <<>>
    /\ form.valor \in ValoresLidos
    /\ IsCalendarDate(form.data[1])

\* C10: at most one connection is ever opened, and every call to _conn()
\* returns the same connection object, whatever the interleaving of threads.
C10_OneConnection ==
    /\ Cardinality(opened) <= 1
    /\ \A t, u \in Threads : (got[t] # None /\ got[u] # None) => got[t] = got[u]

====
